---- MODULE Spec2Model ----
(***************************************************************************)
(* Model of the English -> Hungarian subtitle translator (src/main.py,     *)
(* with the superseded line balancer of src/main_old.py).                  *)
(*                                                                         *)
(* Representation.  A text is the sequence of its whitespace-separated     *)
(* words (what str.split() returns); joining with single spaces is         *)
(* concatenation of word sequences.  A word records where it comes from    *)
(* (language, sentence id, part), its length in characters and whether it  *)
(* carries sentence-ending punctuation.  The Segmenter (nltk sent_tokenize)*)
(* cuts a text after every word that ends a sentence.  The Translator      *)
(* (argostranslate behind translate_text) is the environment: each call    *)
(* returns one of several texts, or raises.                                *)
(***************************************************************************)
EXTENDS Integers, Sequences, FiniteSets, TLC

\* ------------------------------------------------------------------ bounds
\* Largest number of source sentences in an input file.
MaxSents == 6
\* Largest number of source sentences of an input file given to the Translator
\* that may return anything on every call ("arbitrary").
MaxArbSents == 4
\* Largest number of source sentences of an input file that are longer than
\* MAX_CHARS_PER_BLOCK.
MaxLong == 1
\* Largest number of pieces an input text of protect_terms is put together from.
MaxPieces == 2
\* Largest number of words of an input line of balance_two_lines.
MaxWords == 2
\* format_srt_text is run on texts of up to MaxFmtWords words
MaxFmtWords == 4

\* ------------------------------------------------------- program constants
MAX_CHARS_PER_LINE == 65
MAX_SENTENCES_PER_BLOCK == 5
MAX_CHARS_PER_BLOCK == 512

\* ------------------------------------------------------------ text helpers
Min(a, b) == IF a <= b THEN a ELSE b

RECURSIVE SumLen(_)
SumLen(words) ==
    IF words = <<>> THEN 0 ELSE Head(words).len + SumLen(Tail(words))

\* len(" ".join(words))
StrLen(words) == IF words = <<>> THEN 0 ELSE SumLen(words) + Len(words) - 1

\* " ".join(texts), each text a word sequence
RECURSIVE JoinTexts(_)
JoinTexts(texts) ==
    IF texts = <<>> THEN <<>> ELSE Head(texts) \o JoinTexts(Tail(texts))

\* Index of the first word of text that ends a sentence, Len(text) if none.
RECURSIVE FirstEnd(_, _)
FirstEnd(text, i) ==
    IF i >= Len(text) \/ text[i].end THEN i ELSE FirstEnd(text, i + 1)

\* sent_tokenize(text): the sentences of text, in order.
RECURSIVE sent_tokenize(_)
sent_tokenize(text) ==
    IF text = <<>> THEN <<>>
    ELSE LET i == FirstEnd(text, 1)
         IN  <<SubSeq(text, 1, i)>> \o sent_tokenize(SubSeq(text, i + 1, Len(text)))

\* sum(len(sent) for sent in block_sentences)
RECURSIVE SumChars(_)
SumChars(sents) ==
    IF sents = <<>> THEN 0 ELSE StrLen(Head(sents)) + SumChars(Tail(sents))

\* ---------------------------------------------------------- format_srt_text
\* A formatted text is its sequence of lines, each a word sequence; "" is <<>>.
FirstLine(words, i) == SubSeq(words, 1, i)
SecondLine(words, i) == SubSeq(words, i + 1, Len(words))

\* First loop: split points i = optimal, optimal-1, .., 1 with both lines in budget.
DownSplits(words, max_chars_per_line) ==
    { i \in 1..(Len(words) \div 2) :
        /\ StrLen(FirstLine(words, i)) <= max_chars_per_line
        /\ StrLen(SecondLine(words, i)) <= max_chars_per_line }

\* Second loop: i = optimal+1 .. len(words)-1 whose first line is over budget.
UpSplits(words, max_chars_per_line) ==
    { i \in ((Len(words) \div 2) + 1)..(Len(words) - 1) :
        /\ StrLen(FirstLine(words, i)) > max_chars_per_line
        /\ i > 1 }

SetMax(S) == CHOOSE x \in S : \A y \in S : y <= x
SetMin(S) == CHOOSE x \in S : \A y \in S : x <= y

BreakIndex(words, max_chars_per_line) ==
    IF DownSplits(words, max_chars_per_line) # {}
    THEN SetMax(DownSplits(words, max_chars_per_line))
    ELSE IF UpSplits(words, max_chars_per_line) # {}
    THEN SetMin(UpSplits(words, max_chars_per_line)) - 1
    ELSE Len(words) \div 2

format_srt_text(text, max_chars_per_line) ==
    IF text = <<>> THEN <<>>
    ELSE IF StrLen(text) <= max_chars_per_line THEN <<text>>
    ELSE LET i == BreakIndex(text, max_chars_per_line)
         IN  <<FirstLine(text, i), SecondLine(text, i)>>

\* --------------------------------------------------------------- write_srt
\* The lines written for the blocks: index, timestamp, text, "" per block.
RECURSIVE write_srt(_)
write_srt(final_srt) ==
    IF final_srt = <<>> THEN <<>>
    ELSE <<Head(final_srt).index, Head(final_srt).timestamp,
           Head(final_srt).text, <<>>>> \o write_srt(Tail(final_srt))

\* -------------------------------------------------------------- Translator
\* A word carries, besides its length, the number marks of marker characters
\* in it and the number terms of marker characters protect_terms adds to it
\* (2 for a word that is a term, 1 for the first or last word of a term with a
\* blank in it).
\* protect_terms(text) as the Translator sees it: the markers are in the words.
protect_words(text) ==
    [i \in 1..Len(text) |->
        [text[i] EXCEPT !.len = @ + text[i].terms, !.marks = @ + text[i].terms]]

\* unprotect_terms(text): every marker character is deleted; a word that was
\* markers only is no word any more.
unprotect_words(text) ==
    LET kept == SelectSeq(text, LAMBDA w : w.len > w.marks)
    IN  [i \in 1..Len(kept) |->
            [kept[i] EXCEPT !.len = @ - kept[i].marks, !.marks = 0]]

\* What argostranslate.translate.translate(protected, "en", "hu") can return:
\* the Translator is external.
HuWord(w) == [w EXCEPT !.lang = "hu"]
Aligned(text) == [i \in 1..Len(text) |-> HuWord(text[i])]
Merged(text) ==
    [i \in 1..Len(text) |-> [HuWord(text[i]) EXCEPT !.end = (i = Len(text))]]
SplitFirst(text) ==
    [i \in 1..Len(text) |-> [HuWord(text[i]) EXCEPT !.end = (i = 1 \/ text[i].end)]]

TranslatorKinds ==
    {"identity", "aligned", "merging", "splitting", "dropping", "arbitrary"}

TranslatorOutputs(kind, text) ==
    CASE kind = "identity"  -> {text}
      [] kind = "aligned"   -> {Aligned(text)}
      [] kind = "merging"   -> {Merged(text)}
      [] kind = "splitting" -> {SplitFirst(text)}
      [] kind = "dropping"  -> {<<>>}
      [] OTHER              -> {Aligned(text), Merged(text), SplitFirst(text), <<>>}

\* translate_text(text) with the Translator of the given kind: protect, translate,
\* unprotect.
translate_text(kind, text) ==
    { unprotect_words(translated) :
        translated \in TranslatorOutputs(kind, protect_words(text)) }

\* ------------------------------------------------- strings as character lists
\* The functions below work on the characters of a string.
EXCEPTIONS ==
    << <<"A", "n", "g", "u", "l", "a", "r">>,
       <<"R", "e", "a", "c", "t">>,
       <<"R", "e", "a", "c", "t", " ", "N", "a", "t", "i", "v", "e">>,
       <<"P", "y", "t", "h", "o", "n">>,
       <<"V", "u", "e">>,
       <<"N", "o", "d", "e", ".", "j", "s">>,
       <<"D", "o", "c", "k", "e", "r">>,
       <<"K", "u", "b", "e", "r", "n", "e", "t", "e", "s">>,
       <<"G", "i", "t">>,
       <<"G", "i", "t", "H", "u", "b">>,
       <<"T", "y", "p", "e", "S", "c", "r", "i", "p", "t">>,
       <<"J", "a", "v", "a", "S", "c", "r", "i", "p", "t">>,
       <<"A", "W", "S">>,
       <<"A", "z", "u", "r", "e">>,
       <<"H", "i", "s", "t", "o", "r", "y", " ", "A", "P", "I">>,
       <<"Z", "e", "r", "o", " ", "t", "o", " ", "M", "a", "s", "t", "e", "r", "y">>,
       <<"C", "+", "+">>,
       <<"C", "#">>,
       <<"C", "-", "s", "h", "a", "r", "p">>,
       <<"J", "a", "v", "a">>,
       <<"O", "b", "j", "e", "c", "t", "i", "v", "e", "-", "C">>,
       <<"S", "Q", "L">> >>

\* A character is a string: an ASCII character stands for itself (with the
\* escapes \t, \n, \r, \f), any other character is named by its code point.
\* The marker character of protect_terms, the section sign.
MARKER == "U+00A7"

\* str.replace(old, new): the occurrences of old, left to right, not overlapping.
RECURSIVE Replace(_, _, _)
Replace(text, old, new) ==
    IF Len(text) < Len(old) \/ old = <<>> THEN text
    ELSE IF SubSeq(text, 1, Len(old)) = old
         THEN new \o Replace(SubSeq(text, Len(old) + 1, Len(text)), old, new)
         ELSE <<Head(text)>> \o Replace(Tail(text), old, new)

\* Mutant: the terms are wrapped with spaces around the markers.
RECURSIVE protect_terms_spaced(_, _)
protect_terms_spaced(text, vocabulary) ==
    IF vocabulary = <<>> THEN text
    ELSE protect_terms_spaced(
            Replace(text, Head(vocabulary),
                    <<" ", MARKER>> \o Head(vocabulary) \o <<MARKER, " ">>),
            Tail(vocabulary))

\* protect_terms with the vocabulary as a parameter; the code scans EXCEPTIONS.
RECURSIVE protect_terms(_, _)
protect_terms(text, vocabulary) ==
    IF vocabulary = <<>> THEN text
    ELSE protect_terms(
            Replace(text, Head(vocabulary), <<MARKER>> \o Head(vocabulary) \o <<MARKER>>),
            Tail(vocabulary))

unprotect_terms(text) == SelectSeq(text, LAMBDA c : c # MARKER)

\* The characters str.split() and str.strip() take as whitespace, those with
\* str.isspace(): tab, newline, vertical tab, form feed, carriage return, the
\* separators U+001C..U+001F, blank, next line, no-break space and the
\* Unicode spaces.
Whitespace ==
    { "\t", "\n", "U+000B", "\f", "\r", "U+001C", "U+001D", "U+001E", "U+001F",
      " ", "U+0085", "U+00A0", "U+1680", "U+2000", "U+2001", "U+2002", "U+2003",
      "U+2004", "U+2005", "U+2006", "U+2007", "U+2008", "U+2009", "U+200A",
      "U+2028", "U+2029", "U+202F", "U+205F", "U+3000" }
IsSpace(c) == c \in Whitespace

\* str.strip()
RECURSIVE LStrip(_)
LStrip(line) ==
    IF line # <<>> /\ IsSpace(Head(line)) THEN LStrip(Tail(line)) ELSE line
RECURSIVE RStrip(_)
RStrip(line) ==
    IF line # <<>> /\ IsSpace(line[Len(line)])
    THEN RStrip(SubSeq(line, 1, Len(line) - 1)) ELSE line
Strip(line) == RStrip(LStrip(line))

\* Length of the run of non-space characters line starts with.
RECURSIVE WordEnd(_, _)
WordEnd(line, i) ==
    IF i < Len(line) /\ ~IsSpace(line[i + 1]) THEN WordEnd(line, i + 1) ELSE i

\* str.split(): the maximal runs of non-space characters.
RECURSIVE Split(_)
Split(line) ==
    LET rest == LStrip(line) IN
    IF rest = <<>> THEN <<>>
    ELSE LET n == WordEnd(rest, 0)
         IN  <<SubSeq(rest, 1, n)>> \o Split(SubSeq(rest, n + 1, Len(rest)))

\* " ".join(parts)
RECURSIVE Join(_)
Join(parts) ==
    IF parts = <<>> THEN <<>>
    ELSE IF Len(parts) = 1 THEN Head(parts)
    ELSE Head(parts) \o <<" ">> \o Join(Tail(parts))


\* ------------------------------------------------------------------- state
VARIABLES
    pc,                      \* position in process_and_generate_srt
    translator,              \* which Translator the run talks to
    eng_blocks,              \* read_srt's result
    all_eng_sentences,
    all_hun_sentences,
    current_sentence_idx,
    attempt_sentence_count,
    hun_blocks,
    hun_sentence_idx,
    out_file,                \* the lines write_srt wrote, <<>> before it ran
    \* history, read by the properties only
    iter,                    \* outer iterations started
    iter_start,              \* cursor at the start of the current outer iteration
    calls,                   \* every Translator call: [iter, start, size, chars, forced, outcome]
    accepted,                \* every accepted batch: [start, size]
    mismatches,              \* calls so far whose result had another sentence count
    \* protect_terms / unprotect_terms on their own
    prot_pc, vocabulary, prot_text, protected, restored,
    \* balance_two_lines on its own
    bal_pc, in_line1, in_line2, line1, line2, bal_round,
    \* format_srt_text on its own
    fmt_pc, fmt_text, fmt_budget, fmt_lines

pipeline_vars ==
    <<pc, translator, eng_blocks, all_eng_sentences, all_hun_sentences,
      current_sentence_idx, attempt_sentence_count, hun_blocks, hun_sentence_idx,
      out_file, iter, iter_start, calls, accepted, mismatches>>

protect_vars == <<prot_pc, vocabulary, prot_text, protected, restored>>
balance_vars == <<bal_pc, in_line1, in_line2, line1, line2, bal_round>>
format_vars == <<fmt_pc, fmt_text, fmt_budget, fmt_lines>>
pure_vars == <<protect_vars, balance_vars, format_vars>>

vars == <<pipeline_vars, pure_vars>>

\* The functions checked on their own are not running.
ProtectIdle ==
    /\ prot_pc = "idle" /\ vocabulary = <<>> /\ prot_text = <<>>
    /\ protected = <<>> /\ restored = <<>>
BalanceIdle ==
    /\ bal_pc = "idle" /\ in_line1 = <<>> /\ in_line2 = <<>>
    /\ line1 = <<>> /\ line2 = <<>> /\ bal_round = 0
FormatIdle ==
    /\ fmt_pc = "idle" /\ fmt_text = <<>> /\ fmt_budget = 0 /\ fmt_lines = <<>>

\* ------------------------------------------------------------------ inputs
ShortWords == <<49, 50>>      \* a sentence of 100 characters
LongWords == <<299, 300>>     \* a sentence of 600 characters
\* A sentence of 100 characters like "GitHub # a#b." with the marker character
\* for #, the first and the last word longer:
\* a term, a marker character on its own, a word with a marker character in it.
MarkedWords == <<48, 1, 49>>
MarkedMarks == <<0, 1, 1>>
MarkedTerms == <<2, 0, 0>>
NoMarks == <<0, 0, 0>>

\* Source sentence number s as a text.
Sentence(s, lens, marks, terms) ==
    [k \in 1..Len(lens) |->
        [lang |-> "en", s |-> s, len |-> lens[k], end |-> (k = Len(lens)),
         marks |-> marks[k], terms |-> terms[k]]]

\* The block boundaries: block j holds the sentences after cut j-1 up to cut j.
RECURSIVE SortedSeq(_)
SortedSeq(S) ==
    IF S = {} THEN <<>> ELSE <<SetMin(S)>> \o SortedSeq(S \ {SetMin(S)})

\* The time range and the index of the j-th block of the file: the numbering
\* of a file need not start at 1.
Timestamp(j) == <<1000 * j, 1000 * j + 500>>
Index(j) == 10 + j

\* The sentences of a file that hold marker characters and a term: none, or
\* the first one.
MarkedChoices == {{}, {1}}

\* A parsed file of n sentences cut into blocks after the positions in cuts,
\* the sentences in longs being long ones, those in marked (and not in longs)
\* holding marker characters and a term.
InputBlocks(n, cuts, longs, marked) ==
    LET ends == SortedSeq(cuts \cup {n})
        first(j) == IF j = 1 THEN 1 ELSE ends[j - 1] + 1
        sentence(s) ==
            IF s \in longs THEN Sentence(s, LongWords, NoMarks, NoMarks)
            ELSE IF s \in marked
                 THEN Sentence(s, MarkedWords, MarkedMarks, MarkedTerms)
                 ELSE Sentence(s, ShortWords, NoMarks, NoMarks)
    IN  IF n = 0 THEN <<>>
        ELSE [j \in 1..Len(ends) |->
                [index |-> Index(j), timestamp |-> Timestamp(j),
                 text |-> JoinTexts([s \in 1..(ends[j] - first(j) + 1) |->
                                        sentence(first(j) + s - 1)])]]

PipelineIdle ==
    /\ pc = "idle" /\ translator = "none" /\ eng_blocks = <<>>
    /\ all_eng_sentences = <<>> /\ all_hun_sentences = <<>>
    /\ current_sentence_idx = 0 /\ attempt_sentence_count = 0
    /\ hun_blocks = <<>> /\ hun_sentence_idx = 0 /\ out_file = <<>>
    /\ iter = 0 /\ iter_start = 0 /\ calls = <<>> /\ accepted = <<>>
    /\ mismatches = 0

Init ==
    /\ ProtectIdle
    /\ BalanceIdle
    /\ FormatIdle
    /\ pc = "segment"
    /\ translator \in TranslatorKinds
    /\ \E n \in 0..(IF translator = "arbitrary" THEN MaxArbSents ELSE MaxSents) :
       \E cuts \in SUBSET (1..(n - 1)) :
       \E longs \in {l \in SUBSET (1..n) : Cardinality(l) <= MaxLong} :
       \E marked \in MarkedChoices :
          eng_blocks = InputBlocks(n, cuts, longs, marked \cap (1..n))
    /\ all_eng_sentences = <<>>
    /\ all_hun_sentences = <<>>
    /\ current_sentence_idx = 0
    /\ attempt_sentence_count = 0
    /\ hun_blocks = <<>>
    /\ hun_sentence_idx = 0
    /\ out_file = <<>>
    /\ iter = 0
    /\ iter_start = 0
    /\ calls = <<>>
    /\ accepted = <<>>
    /\ mismatches = 0

\* ------------------------------------------- process_and_generate_srt, 2.
RECURSIVE AllSentences(_)
AllSentences(blocks) ==
    IF blocks = <<>> THEN <<>>
    ELSE sent_tokenize(Head(blocks).text) \o AllSentences(Tail(blocks))

SegmentBlocks ==
    /\ pc = "segment"
    /\ all_eng_sentences' = AllSentences(eng_blocks)
    /\ pc' = "outer"
    /\ UNCHANGED pure_vars
    /\ UNCHANGED <<translator, eng_blocks, all_hun_sentences, current_sentence_idx,
                   attempt_sentence_count, hun_blocks, hun_sentence_idx, out_file,
                   iter, iter_start, calls, accepted, mismatches>>

\* ------------------------------------------- process_and_generate_srt, 3.
block_sentences ==
    SubSeq(all_eng_sentences, current_sentence_idx + 1,
           current_sentence_idx + attempt_sentence_count)
block_chars == SumChars(block_sentences)
eng_block_text == JoinTexts(block_sentences)

\* The outer while's test holds: a new iteration starts with the largest batch.
EnterIteration ==
    /\ pc = "outer"
    /\ current_sentence_idx < Len(all_eng_sentences)
    /\ attempt_sentence_count' =
          Min(MAX_SENTENCES_PER_BLOCK, Len(all_eng_sentences) - current_sentence_idx)
    /\ iter' = iter + 1
    /\ iter_start' = current_sentence_idx
    /\ pc' = "inner"
    /\ UNCHANGED pure_vars
    /\ UNCHANGED <<translator, eng_blocks, all_eng_sentences, all_hun_sentences,
                   current_sentence_idx, hun_blocks, hun_sentence_idx, out_file,
                   calls, accepted, mismatches>>

\* The outer while's test fails: on to the reassembly.
LeaveLoop ==
    /\ pc = "outer"
    /\ ~(current_sentence_idx < Len(all_eng_sentences))
    /\ pc' = "reassemble"
    /\ UNCHANGED pure_vars
    /\ UNCHANGED <<translator, eng_blocks, all_eng_sentences, all_hun_sentences,
                   current_sentence_idx, attempt_sentence_count, hun_blocks,
                   hun_sentence_idx, out_file, iter, iter_start, calls, accepted,
                   mismatches>>

\* The candidate batch is over the character limit: one sentence fewer, no call.
RejectTooLong ==
    /\ pc = "inner"
    /\ attempt_sentence_count > 0
    /\ block_chars > MAX_CHARS_PER_BLOCK
    /\ attempt_sentence_count' = attempt_sentence_count - 1
    /\ UNCHANGED pure_vars
    /\ UNCHANGED <<pc, translator, eng_blocks, all_eng_sentences, all_hun_sentences,
                   current_sentence_idx, hun_blocks, hun_sentence_idx, out_file,
                   iter, iter_start, calls, accepted, mismatches>>

\* Mutant: the call is made whatever the batch's length.
CallReached_NoLimit ==
    /\ pc = "inner"
    /\ attempt_sentence_count > 0

\* The inner loop's call translate_text(eng_block_text) is reached.
CallReached ==
    /\ pc = "inner"
    /\ attempt_sentence_count > 0
    /\ ~(block_chars > MAX_CHARS_PER_BLOCK)

\* How a call on size sentences ended that returned got of them (-1: it raised).
Outcome(size, got) ==
    IF got = -1 THEN "raised" ELSE IF got = size THEN "same" ELSE "differs"

CallRecord(size, chars, forced, got) ==
    [iter |-> iter, start |-> current_sentence_idx, size |-> size, chars |-> chars,
     forced |-> forced, outcome |-> Outcome(size, got)]

\* Mutant: any result that is not empty is accepted for the whole batch.
AcceptBatch_Lenient ==
    /\ CallReached
    /\ \E translated \in translate_text(translator, eng_block_text) :
         LET hun_sentences == sent_tokenize(translated) IN
         /\ Len(hun_sentences) >= 1
         /\ all_hun_sentences' = all_hun_sentences \o hun_sentences
         /\ current_sentence_idx' = current_sentence_idx + Len(block_sentences)
         /\ calls' = Append(calls, CallRecord(Len(block_sentences), block_chars,
                                              FALSE, Len(hun_sentences)))
         /\ accepted' = Append(accepted,
                [start |-> current_sentence_idx, size |-> Len(block_sentences)])
    /\ pc' = "outer"
    /\ UNCHANGED pure_vars
    /\ UNCHANGED <<translator, eng_blocks, all_eng_sentences, attempt_sentence_count,
                   hun_blocks, hun_sentence_idx, out_file, iter, iter_start,
                   mismatches>>

\* Mutant: an accepted batch moves the cursor by one sentence only.
AcceptBatch_AdvanceOne ==
    /\ CallReached
    /\ \E translated \in translate_text(translator, eng_block_text) :
         LET hun_sentences == sent_tokenize(translated) IN
         /\ Len(hun_sentences) = Len(block_sentences)
         /\ all_hun_sentences' = all_hun_sentences \o hun_sentences
         /\ current_sentence_idx' = current_sentence_idx + 1
         /\ calls' = Append(calls, CallRecord(Len(block_sentences), block_chars,
                                              FALSE, Len(hun_sentences)))
         /\ accepted' = Append(accepted,
                [start |-> current_sentence_idx, size |-> Len(block_sentences)])
    /\ pc' = "outer"
    /\ UNCHANGED pure_vars
    /\ UNCHANGED <<translator, eng_blocks, all_eng_sentences, attempt_sentence_count,
                   hun_blocks, hun_sentence_idx, out_file, iter, iter_start,
                   mismatches>>

\* len(hun_sentences) == len(block_sentences): the batch is accepted.
AcceptBatch ==
    /\ CallReached
    /\ \E translated \in translate_text(translator, eng_block_text) :
         LET hun_sentences == sent_tokenize(translated) IN
         /\ Len(hun_sentences) = Len(block_sentences)
         /\ all_hun_sentences' = all_hun_sentences \o hun_sentences
         /\ current_sentence_idx' = current_sentence_idx + Len(block_sentences)
         /\ calls' = Append(calls, CallRecord(Len(block_sentences), block_chars,
                                              FALSE, Len(hun_sentences)))
         /\ accepted' = Append(accepted,
                [start |-> current_sentence_idx, size |-> Len(block_sentences)])
    /\ pc' = "outer"
    /\ UNCHANGED pure_vars
    /\ UNCHANGED <<translator, eng_blocks, all_eng_sentences, attempt_sentence_count,
                   hun_blocks, hun_sentence_idx, out_file, iter, iter_start,
                   mismatches>>

\* Mutant: a mismatch shrinks the batch by one sentence.
FallBackToOne_Decrement ==
    /\ CallReached
    /\ attempt_sentence_count > 1
    /\ \E translated \in translate_text(translator, eng_block_text) :
         LET hun_sentences == sent_tokenize(translated) IN
         /\ Len(hun_sentences) # Len(block_sentences)
         /\ calls' = Append(calls, CallRecord(Len(block_sentences), block_chars,
                                              FALSE, Len(hun_sentences)))
    /\ attempt_sentence_count' = attempt_sentence_count - 1
    /\ mismatches' = mismatches + 1
    /\ UNCHANGED pure_vars
    /\ UNCHANGED <<pc, translator, eng_blocks, all_eng_sentences, all_hun_sentences,
                   current_sentence_idx, hun_blocks, hun_sentence_idx, out_file,
                   iter, iter_start, accepted>>

\* Counts differ and attempt_sentence_count > 1: straight to one sentence.
FallBackToOne ==
    /\ CallReached
    /\ attempt_sentence_count > 1
    /\ \E translated \in translate_text(translator, eng_block_text) :
         LET hun_sentences == sent_tokenize(translated) IN
         /\ Len(hun_sentences) # Len(block_sentences)
         /\ calls' = Append(calls, CallRecord(Len(block_sentences), block_chars,
                                              FALSE, Len(hun_sentences)))
    /\ attempt_sentence_count' = 1
    /\ mismatches' = mismatches + 1
    /\ UNCHANGED pure_vars
    /\ UNCHANGED <<pc, translator, eng_blocks, all_eng_sentences, all_hun_sentences,
                   current_sentence_idx, hun_blocks, hun_sentence_idx, out_file,
                   iter, iter_start, accepted>>

\* Mutant: the mismatch at one sentence is accepted without moving the cursor.
AcceptMismatch_NoAdvance ==
    /\ CallReached
    /\ ~(attempt_sentence_count > 1)
    /\ \E translated \in translate_text(translator, eng_block_text) :
         LET hun_sentences == sent_tokenize(translated) IN
         /\ Len(hun_sentences) # Len(block_sentences)
         /\ all_hun_sentences' = all_hun_sentences \o hun_sentences
         /\ calls' = Append(calls, CallRecord(Len(block_sentences), block_chars,
                                              FALSE, Len(hun_sentences)))
         /\ accepted' = Append(accepted,
                [start |-> current_sentence_idx, size |-> 1])
    /\ current_sentence_idx' = current_sentence_idx
    /\ mismatches' = mismatches + 1
    /\ pc' = "outer"
    /\ UNCHANGED pure_vars
    /\ UNCHANGED <<translator, eng_blocks, all_eng_sentences, attempt_sentence_count,
                   hun_blocks, hun_sentence_idx, out_file, iter, iter_start>>

\* Mutant: the mismatch at one sentence is not accepted, the call is tried again.
AcceptMismatch_Retry ==
    /\ CallReached
    /\ ~(attempt_sentence_count > 1)
    /\ \E translated \in translate_text(translator, eng_block_text) :
         LET hun_sentences == sent_tokenize(translated) IN
         /\ Len(hun_sentences) # Len(block_sentences)
         /\ calls' = Append(calls, CallRecord(Len(block_sentences), block_chars,
                                              FALSE, Len(hun_sentences)))
    /\ mismatches' = mismatches + 1
    /\ pc' = "inner"
    /\ UNCHANGED pure_vars
    /\ UNCHANGED <<translator, eng_blocks, all_eng_sentences, all_hun_sentences,
                   current_sentence_idx, attempt_sentence_count, accepted,
                   hun_blocks, hun_sentence_idx, out_file, iter, iter_start>>

\* Counts differ at one sentence: the result is accepted as it is.
AcceptMismatch ==
    /\ CallReached
    /\ ~(attempt_sentence_count > 1)
    /\ \E translated \in translate_text(translator, eng_block_text) :
         LET hun_sentences == sent_tokenize(translated) IN
         /\ Len(hun_sentences) # Len(block_sentences)
         /\ all_hun_sentences' = all_hun_sentences \o hun_sentences
         /\ calls' = Append(calls, CallRecord(Len(block_sentences), block_chars,
                                              FALSE, Len(hun_sentences)))
         /\ accepted' = Append(accepted,
                [start |-> current_sentence_idx, size |-> 1])
    /\ current_sentence_idx' = current_sentence_idx + 1
    /\ mismatches' = mismatches + 1
    /\ pc' = "outer"
    /\ UNCHANGED pure_vars
    /\ UNCHANGED <<translator, eng_blocks, all_eng_sentences, attempt_sentence_count,
                   hun_blocks, hun_sentence_idx, out_file, iter, iter_start>>

\* Mutant: the exception is caught and the sentence at the cursor is skipped.
TranslateRaises_Skip ==
    /\ CallReached
    /\ calls' = Append(calls, CallRecord(Len(block_sentences), block_chars, FALSE, -1))
    /\ current_sentence_idx' = current_sentence_idx + 1
    /\ pc' = "outer"
    /\ UNCHANGED pure_vars
    /\ UNCHANGED <<translator, eng_blocks, all_eng_sentences, all_hun_sentences,
                   attempt_sentence_count, hun_blocks, hun_sentence_idx, out_file,
                   iter, iter_start, accepted, mismatches>>

\* translate_text raises in the inner loop: nothing catches it.
TranslateRaises ==
    /\ CallReached
    /\ calls' = Append(calls, CallRecord(Len(block_sentences), block_chars, FALSE, -1))
    /\ pc' = "failed"
    /\ UNCHANGED pure_vars
    /\ UNCHANGED <<translator, eng_blocks, all_eng_sentences, all_hun_sentences,
                   current_sentence_idx, attempt_sentence_count, hun_blocks,
                   hun_sentence_idx, out_file, iter, iter_start, accepted, mismatches>>

\* The inner while ran out (attempt_sentence_count reached 0): its else branch.
ElseReached ==
    /\ pc = "inner"
    /\ ~(attempt_sentence_count > 0)
    /\ current_sentence_idx < Len(all_eng_sentences)

single_sentence == all_eng_sentences[current_sentence_idx + 1]

ForcedSingle ==
    /\ ElseReached
    /\ \E translated_single \in translate_text(translator, single_sentence) :
         LET hun_single_sentences == sent_tokenize(translated_single) IN
         /\ all_hun_sentences' = all_hun_sentences \o hun_single_sentences
         /\ calls' = Append(calls, CallRecord(1, StrLen(single_sentence), TRUE,
                                              Len(hun_single_sentences)))
         /\ accepted' = Append(accepted,
                [start |-> current_sentence_idx, size |-> 1])
         /\ mismatches' = IF Len(hun_single_sentences) # 1
                          THEN mismatches + 1 ELSE mismatches
    /\ current_sentence_idx' = current_sentence_idx + 1
    /\ pc' = "outer"
    /\ UNCHANGED pure_vars
    /\ UNCHANGED <<translator, eng_blocks, all_eng_sentences, attempt_sentence_count,
                   hun_blocks, hun_sentence_idx, out_file, iter, iter_start>>

ForcedRaises ==
    /\ ElseReached
    /\ calls' = Append(calls, CallRecord(1, StrLen(single_sentence), TRUE, -1))
    /\ pc' = "failed"
    /\ UNCHANGED pure_vars
    /\ UNCHANGED <<translator, eng_blocks, all_eng_sentences, all_hun_sentences,
                   current_sentence_idx, attempt_sentence_count, hun_blocks,
                   hun_sentence_idx, out_file, iter, iter_start, accepted, mismatches>>

\* ------------------------------------------- process_and_generate_srt, 4.
\* Mutant: a block takes its sentences only when the pool still has them all.
TakeSentences_AllOrNothing(pool, idx, num_sentences) ==
    IF idx + num_sentences <= Len(pool)
    THEN [taken |-> SubSeq(pool, idx + 1, idx + num_sentences),
          idx |-> idx + num_sentences]
    ELSE [taken |-> <<>>, idx |-> idx]

\* for _ in range(num_sentences): take the next pool sentence while there is one.
RECURSIVE TakeSentences(_, _, _)
TakeSentences(pool, idx, num_sentences) ==
    IF num_sentences = 0 THEN [taken |-> <<>>, idx |-> idx]
    ELSE IF idx < Len(pool)
         THEN LET rest == TakeSentences(pool, idx + 1, num_sentences - 1)
              IN  [taken |-> <<pool[idx + 1]>> \o rest.taken, idx |-> rest.idx]
         ELSE TakeSentences(pool, idx, num_sentences - 1)

\* Mutant: the output blocks are renumbered from 1.
ReassembleBlock_Renumber ==
    /\ pc = "reassemble"
    /\ Len(hun_blocks) < Len(eng_blocks)
    /\ LET eng_block == eng_blocks[Len(hun_blocks) + 1]
           num_sentences == Len(sent_tokenize(eng_block.text))
           got == TakeSentences(all_hun_sentences, hun_sentence_idx, num_sentences)
           block_text == JoinTexts(got.taken)
           formatted_text == format_srt_text(block_text, MAX_CHARS_PER_LINE)
       IN  /\ hun_blocks' = Append(hun_blocks,
                  [index |-> Len(hun_blocks) + 1, timestamp |-> eng_block.timestamp,
                   text |-> formatted_text])
           /\ hun_sentence_idx' = got.idx
    /\ UNCHANGED pure_vars
    /\ UNCHANGED <<pc, translator, eng_blocks, all_eng_sentences, all_hun_sentences,
                   current_sentence_idx, attempt_sentence_count, out_file, iter,
                   iter_start, calls, accepted, mismatches>>

\* One pass of the loop over eng_blocks.
ReassembleBlock ==
    /\ pc = "reassemble"
    /\ Len(hun_blocks) < Len(eng_blocks)
    /\ LET eng_block == eng_blocks[Len(hun_blocks) + 1]
           num_sentences == Len(sent_tokenize(eng_block.text))
           got == TakeSentences(all_hun_sentences, hun_sentence_idx, num_sentences)
           block_text == JoinTexts(got.taken)
           formatted_text == format_srt_text(block_text, MAX_CHARS_PER_LINE)
       IN  /\ hun_blocks' = Append(hun_blocks,
                  [index |-> eng_block.index, timestamp |-> eng_block.timestamp,
                   text |-> formatted_text])
           /\ hun_sentence_idx' = got.idx
    /\ UNCHANGED pure_vars
    /\ UNCHANGED <<pc, translator, eng_blocks, all_eng_sentences, all_hun_sentences,
                   current_sentence_idx, attempt_sentence_count, out_file, iter,
                   iter_start, calls, accepted, mismatches>>

\* ------------------------------------------- process_and_generate_srt, 6.
WriteSrt ==
    /\ pc = "reassemble"
    /\ ~(Len(hun_blocks) < Len(eng_blocks))
    /\ out_file' = write_srt(hun_blocks)
    /\ pc' = "done"
    /\ UNCHANGED pure_vars
    /\ UNCHANGED <<translator, eng_blocks, all_eng_sentences, all_hun_sentences,
                   current_sentence_idx, attempt_sentence_count, hun_blocks,
                   hun_sentence_idx, iter, iter_start, calls, accepted, mismatches>>

Next ==
    \/ SegmentBlocks
    \/ EnterIteration
    \/ LeaveLoop
    \/ RejectTooLong
    \/ AcceptBatch
    \/ FallBackToOne
    \/ AcceptMismatch
    \/ TranslateRaises
    \/ ForcedSingle
    \/ ForcedRaises
    \/ ReassembleBlock
    \/ WriteSrt

Spec == Init /\ [][Next]_vars

\* ----------------------------------- protect_terms / unprotect_terms alone
TextPieces ==
    { <<"R", "e", "a", "c", "t">>,
      <<" ", "N", "a", "t", "i", "v", "e">>,
      <<"G", "i", "t">>,
      <<"H", "u", "b">>,
      <<"J", "a", "v", "a">>,
      <<"S", "c", "r", "i", "p", "t">>,
      <<" ", "x", " ">>,
      <<"C", "#">>,
      <<MARKER>> }

RECURSIVE PieceTexts(_)
PieceTexts(n) ==
    IF n = 0 THEN {<<>>}
    ELSE PieceTexts(n - 1) \cup
         { t \o piece : t \in PieceTexts(n - 1), piece \in TextPieces }

\* The code's vocabulary, the same terms with the longer ones first, and two
\* short lists in the two orders.
LongestFirst ==
    << <<"R", "e", "a", "c", "t", " ", "N", "a", "t", "i", "v", "e">>,
       <<"R", "e", "a", "c", "t">>,
       <<"G", "i", "t", "H", "u", "b">>,
       <<"G", "i", "t">>,
       <<"J", "a", "v", "a", "S", "c", "r", "i", "p", "t">>,
       <<"J", "a", "v", "a">>,
       <<"C", "#">> >>
Vocabularies ==
    { EXCEPTIONS, LongestFirst,
      <<<<"G", "i", "t">>, <<"G", "i", "t", "H", "u", "b">>>>,
      <<<<"S", "c", "r", "i", "p", "t">>, <<"J", "a", "v", "a">>>> }

ProtectInit ==
    /\ PipelineIdle
    /\ BalanceIdle
    /\ FormatIdle
    /\ prot_pc = "start"
    /\ vocabulary \in Vocabularies
    /\ prot_text \in PieceTexts(MaxPieces)
    /\ protected = <<>>
    /\ restored = <<>>

\* translate_text, line 85
Protect ==
    /\ prot_pc = "start"
    /\ protected' = protect_terms(prot_text, vocabulary)
    /\ prot_pc' = "protected"
    /\ UNCHANGED <<vocabulary, prot_text, restored>>
    /\ UNCHANGED <<pipeline_vars, balance_vars, format_vars>>

\* translate_text, line 87, on the text as it was protected
Unprotect ==
    /\ prot_pc = "protected"
    /\ restored' = unprotect_terms(protected)
    /\ prot_pc' = "restored"
    /\ UNCHANGED <<vocabulary, prot_text, protected>>
    /\ UNCHANGED <<pipeline_vars, balance_vars, format_vars>>

ProtectNext ==
    \/ Protect
    \/ Unprotect

ProtectSpec == ProtectInit /\ [][ProtectNext]_vars

\* ------------------------------------------------- balance_two_lines alone
BALANCE_ROUNDS == 3
BALANCE_DIFF == 10

\* A word of n letters.
Word(n) == [i \in 1..n |-> "a"]
WordLens == {1, 2, 12}

\* The lists of up to n words.
RECURSIVE WordLists(_)
WordLists(n) ==
    IF n = 0 THEN {<<>>}
    ELSE WordLists(n - 1) \cup
         { Append(ws, Word(k)) : ws \in WordLists(n - 1), k \in WordLens }

\* What stands between two words of an input line, at its start and at its end.
Separators == {" ", "\t", "U+000B"}
LineStarts == {<<>>, <<"U+001F">>}
LineEnds == {<<>>, <<"\n">>, <<"U+001F">>}

\* The lines of the words ws: any separator between two words.
RECURSIVE LinesOf(_)
LinesOf(ws) ==
    IF Len(ws) <= 1 THEN {Join(ws)}
    ELSE { l \o <<sep>> \o ws[Len(ws)] :
             l \in LinesOf(SubSeq(ws, 1, Len(ws) - 1)), sep \in Separators }

\* The input lines: the lines wrap_text_to_lines builds (words joined by single
\* blanks) and lines of any caller, with other whitespace between the words,
\* at the start and at the end.
BalanceLines ==
    { b \o l \o e : b \in LineStarts,
                    l \in UNION { LinesOf(ws) : ws \in WordLists(MaxWords) },
                    e \in LineEnds }

BalanceInit ==
    /\ PipelineIdle
    /\ ProtectIdle
    /\ FormatIdle
    /\ bal_pc = "loop"
    /\ in_line1 \in BalanceLines
    /\ in_line2 \in BalanceLines
    /\ line1 = in_line1
    /\ line2 = in_line2
    /\ bal_round = 0

Abs(n) == IF n < 0 THEN -n ELSE n
Max(a, b) == IF a >= b THEN a ELSE b

\* The loop body is entered and does not break on the difference.
BalanceGoesOn ==
    /\ bal_pc = "loop"
    /\ bal_round < BALANCE_ROUNDS
    /\ ~(Abs(Len(line1) - Len(line2)) <= BALANCE_DIFF)

\* len1 > len2: the last word of line1 goes to the front of line2.
MoveDown ==
    /\ BalanceGoesOn
    /\ Len(line1) > Len(line2)
    /\ LET parts == Split(line1) IN
       /\ ~(Len(parts) <= 1)
       /\ line1' = Join(SubSeq(parts, 1, Len(parts) - 1))
       /\ line2' = parts[Len(parts)] \o <<" ">> \o line2
    /\ bal_round' = bal_round + 1
    /\ UNCHANGED <<bal_pc, in_line1, in_line2>>
    /\ UNCHANGED <<pipeline_vars, protect_vars, format_vars>>

\* Otherwise the first word of line2 goes to the end of line1.
MoveUp ==
    /\ BalanceGoesOn
    /\ ~(Len(line1) > Len(line2))
    /\ LET parts == Split(line2) IN
       /\ ~(Len(parts) <= 1)
       /\ line2' = Join(Tail(parts))
       /\ line1' = line1 \o <<" ">> \o Head(parts)
    /\ bal_round' = bal_round + 1
    /\ UNCHANGED <<bal_pc, in_line1, in_line2>>
    /\ UNCHANGED <<pipeline_vars, protect_vars, format_vars>>

\* The loop ends (three rounds, a small difference, or a line of one word):
\* both lines are returned stripped.
BalanceReturn ==
    /\ bal_pc = "loop"
    /\ \/ ~(bal_round < BALANCE_ROUNDS)
       \/ Abs(Len(line1) - Len(line2)) <= BALANCE_DIFF
       \/ Len(Split(IF Len(line1) > Len(line2) THEN line1 ELSE line2)) <= 1
    /\ line1' = Strip(line1)
    /\ line2' = Strip(line2)
    /\ bal_pc' = "returned"
    /\ UNCHANGED <<in_line1, in_line2, bal_round>>
    /\ UNCHANGED <<pipeline_vars, protect_vars, format_vars>>

BalanceNext ==
    \/ MoveDown
    \/ MoveUp
    \/ BalanceReturn

BalanceSpec == BalanceInit /\ [][BalanceNext]_vars

\* --------------------------------------------------- format_srt_text alone
\* Words of 1, 32 and 64 characters: short texts, texts with one good split
\* point and texts with none all occur.
FmtWordLens == {1, 32, 64}
FmtWord(k) == [lang |-> "hu", s |-> 0, len |-> k, end |-> FALSE]

RECURSIVE FmtTexts(_)
FmtTexts(n) ==
    IF n = 0 THEN { <<>> }
    ELSE FmtTexts(n - 1) \cup
         { Append(ws, FmtWord(k)) :
             ws \in { t \in FmtTexts(n - 1) : Len(t) = n - 1 }, k \in FmtWordLens }

\* The default budget and a smaller one a caller may pass.
FmtBudgets == {MAX_CHARS_PER_LINE, MAX_CHARS_PER_LINE \div 2}

FormatInit ==
    /\ PipelineIdle
    /\ ProtectIdle
    /\ BalanceIdle
    /\ fmt_pc = "start"
    /\ fmt_text \in FmtTexts(MaxFmtWords)
    /\ fmt_budget \in FmtBudgets
    /\ fmt_lines = <<>>

\* format_srt_text(text, max_chars_per_line), lines 90-137
Format ==
    /\ fmt_pc = "start"
    /\ fmt_lines' = format_srt_text(fmt_text, fmt_budget)
    /\ fmt_pc' = "returned"
    /\ UNCHANGED <<fmt_text, fmt_budget>>
    /\ UNCHANGED <<pipeline_vars, protect_vars, balance_vars>>

FormatNext == Format

FormatSpec == FormatInit /\ [][FormatNext]_vars

\* ================================================================== claims
\* The accepted batches tile the consumed prefix of the source sentences: the
\* first starts at sentence 0, each next one where the one before ended, the
\* last ends at the cursor; so every sentence before the cursor is in exactly
\* one accepted batch.
ConsumedOnce ==
    /\ \A k \in 1..Len(accepted) :
          /\ accepted[k].size >= 1
          /\ accepted[k].start =
                IF k = 1 THEN 0 ELSE accepted[k - 1].start + accepted[k - 1].size
    /\ current_sentence_idx =
          IF accepted = <<>> THEN 0
          ELSE accepted[Len(accepted)].start + accepted[Len(accepted)].size

BatcherLeft == pc \in {"reassemble", "done", "failed"}

\* A natural number that every step inside the batcher loop makes smaller: the
\* sentences left, then the position in the outer iteration.
Variant ==
    CASE pc = "segment" ->
            (MAX_SENTENCES_PER_BLOCK + 3) * (Len(AllSentences(eng_blocks)) + 1)
      [] pc = "outer" ->
            (MAX_SENTENCES_PER_BLOCK + 3) * (Len(all_eng_sentences) - current_sentence_idx)
            + MAX_SENTENCES_PER_BLOCK + 2
      [] pc = "inner" ->
            (MAX_SENTENCES_PER_BLOCK + 3) * (Len(all_eng_sentences) - current_sentence_idx)
            + attempt_sentence_count + 1
      [] OTHER -> 0

\* A step is possible: the tests of the code at the position hold for one of
\* its branches (those of the outer while are each other's negation), and a
\* call that is reached has a result to go on with.
StepPossible ==
    \/ pc \in {"segment", "outer"}
    \/ pc = "inner" /\ attempt_sentence_count > 0 /\ block_chars > MAX_CHARS_PER_BLOCK
    \/ CallReached /\ translate_text(translator, eng_block_text) # {}
    \/ ElseReached /\ translate_text(translator, single_sentence) # {}

C1_CursorInv ==
    /\ Variant \in Nat
    /\ ~BatcherLeft => StepPossible
    /\ current_sentence_idx <= Len(all_eng_sentences)
    /\ pc \in {"reassemble", "done"} => current_sentence_idx = Len(all_eng_sentences)
    /\ iter <= Len(all_eng_sentences)
    /\ pc = "outer" => current_sentence_idx >= iter
    /\ ConsumedOnce

C1_CursorStep ==
    /\ ~BatcherLeft => Variant' < Variant
    /\ current_sentence_idx' >= current_sentence_idx
    /\ (pc = "inner" /\ pc' = "outer") => current_sentence_idx' >= iter_start + 1

\* C1: for every input and every Translator the batcher loop terminates (up to
\* its end a step is always possible and every step lowers the natural number
\* Variant); the cursor never decreases, has advanced by at least 1 when an outer iteration
\* ends, never exceeds the source length and equals it after the loop; the
\* accepted batches cover every source sentence exactly once, in at most
\* len(all_eng_sentences) outer iterations.
C1_BatcherTerminates ==
    /\ []C1_CursorInv
    /\ [][C1_CursorStep]_vars

\* A run of the Translator that may return anything, on the longest input it
\* is given: several outer iterations, one of them through the forced
\* single-sentence path, a mismatch, a batch of several sentences accepted,
\* everything consumed.
C1_Witness ==
    /\ pc = "done"
    /\ translator = "arbitrary"
    /\ iter >= 3
    /\ Len(all_eng_sentences) = MaxArbSents
    /\ \E k \in 1..Len(calls) : calls[k].forced
    /\ \E k \in 1..Len(calls) : calls[k].outcome = "differs"
    /\ \E k \in 1..Len(accepted) : accepted[k].size > 1

\* ---------------------------------------------------------------------- C2
\* C2: whatever the Translator returned, every block built so far stands at the
\* position of its input block and carries that block's index and time range,
\* with the fields index, timestamp and text only; when the run is done there
\* is one output block per input block, and the written file holds, per block,
\* the index and the time range of the input block.
C2_BlocksPreserved ==
    /\ Len(hun_blocks) <= Len(eng_blocks)
    /\ \A j \in 1..Len(hun_blocks) :
          /\ DOMAIN hun_blocks[j] = {"index", "timestamp", "text"}
          /\ hun_blocks[j].index = eng_blocks[j].index
          /\ hun_blocks[j].timestamp = eng_blocks[j].timestamp
    /\ pc = "done" =>
          /\ Len(hun_blocks) = Len(eng_blocks)
          /\ Len(out_file) = 4 * Len(eng_blocks)
          /\ \A j \in 1..Len(eng_blocks) :
                /\ out_file[4 * j - 3] = eng_blocks[j].index
                /\ out_file[4 * j - 2] = eng_blocks[j].timestamp

\* A finished run over several blocks whose Translator returned a result of
\* another sentence count, so that the pool and the source differ in length.
C2_Witness ==
    /\ pc = "done"
    /\ Len(eng_blocks) >= 3
    /\ Len(all_hun_sentences) # Len(all_eng_sentences)
    /\ Len(hun_blocks) = Len(eng_blocks)

\* ---------------------------------------------------------------------- C3
\* Every Translator call so far returned as many sentences as it was given.
AllCallsAligned == \A k \in 1..Len(calls) : calls[k].outcome = "same"

\* The translation of one source sentence in a run whose calls all kept the
\* sentence count: translate_text with the Translator copying or translating
\* word by word.
TranslationOf(sentence) ==
    IF translator = "identity"
    THEN unprotect_words(protect_words(sentence))
    ELSE unprotect_words(Aligned(protect_words(sentence)))

\* The output blocks hold, in order, the translations of the sentences of
\* their own input blocks, none missing.
OwnTranslations ==
    /\ Len(all_hun_sentences) = Len(all_eng_sentences)
    /\ \A j \in 1..Len(eng_blocks) :
          LET own == sent_tokenize(eng_blocks[j].text)
          IN  sent_tokenize(JoinTexts(hun_blocks[j].text)) =
                  [k \in 1..Len(own) |-> TranslationOf(own[k])]

\* C3 as claimed: when every Translator call returned a text of as many
\* sentences as the batch, the finished run has as many translated as source
\* sentences and every output block's text is the translations of its own
\* block's sentences, which under the identity Translator are the block's own
\* sentences.  translate_text deletes every marker character of the result
\* (unprotect_terms), those of the source text included, so the last part
\* fails on a text that holds the marker character.
C3_OwnSentences ==
    (pc = "done" /\ AllCallsAligned) =>
        /\ OwnTranslations
        /\ translator = "identity" =>
              \A j \in 1..Len(eng_blocks) :
                  JoinTexts(hun_blocks[j].text) = eng_blocks[j].text

\* C3: when every Translator call returned a text of as many sentences as the
\* batch, position by position, the finished run has as many translated as
\* source sentences, and every output block's text is, in order, the
\* translations of the sentences of its own input block, none missing; under
\* the identity Translator these are the block's own sentences without their
\* marker characters.
C3_AlignedEndToEnd ==
    (pc = "done" /\ AllCallsAligned) =>
        /\ OwnTranslations
        /\ translator = "identity" =>
              \A j \in 1..Len(eng_blocks) :
                  JoinTexts(hun_blocks[j].text) = unprotect_words(eng_blocks[j].text)

\* A finished run of the identity Translator over several blocks, with a
\* multi-sentence batch accepted, on a file whose first block holds marker
\* characters and comes out without them.
C3_Witness ==
    /\ pc = "done"
    /\ AllCallsAligned
    /\ translator = "identity"
    /\ Len(eng_blocks) >= 2
    /\ \E j \in 1..Len(eng_blocks) : Len(sent_tokenize(eng_blocks[j].text)) >= 2
    /\ \E k \in 1..Len(accepted) : accepted[k].size > 1
    /\ \E i \in 1..Len(eng_blocks[1].text) : eng_blocks[1].text[i].marks > 0
    /\ JoinTexts(hun_blocks[1].text) # eng_blocks[1].text
    /\ JoinTexts(hun_blocks[2].text) = eng_blocks[2].text

\* ---------------------------------------------------------------------- C4
\* C4: with the Translator that merges whatever it is given into one sentence,
\* every accepted batch has size 1 and every call on more than one sentence is
\* a mismatch; when the loop is over every source sentence was accepted through
\* a batch of its own, and there are as many translated as source sentences.
C4_MergingFallsBack ==
    translator = "merging" =>
        /\ \A k \in 1..Len(accepted) :
              accepted[k].size = 1 /\ accepted[k].start = k - 1
        /\ \A k \in 1..Len(calls) :
              calls[k].size > 1 => calls[k].outcome # "same"
        /\ Len(all_hun_sentences) = current_sentence_idx
        /\ pc \in {"reassemble", "done"} =>
              /\ Len(accepted) = Len(all_eng_sentences)
              /\ current_sentence_idx = Len(all_eng_sentences)
              /\ Len(all_hun_sentences) = Len(all_eng_sentences)

\* A finished run of the merging Translator on the longest input, whose first
\* call was a full batch.
C4_Witness ==
    /\ translator = "merging"
    /\ pc = "done"
    /\ Len(all_eng_sentences) = MaxSents
    /\ calls # <<>>
    /\ calls[1].size = MAX_SENTENCES_PER_BLOCK
    /\ calls[1].outcome = "differs"

\* ---------------------------------------------------------------------- C5
Raised(call) == call.outcome = "raised"

\* C5: a Translator call that raises is the last call of the run (it is not
\* retried and no later call is made); the run is then over, with no output
\* block built and nothing written; a run that reaches the reassembly had no
\* failing call.
C5_FailurePropagates ==
    /\ \A k \in 1..Len(calls) : Raised(calls[k]) => (k = Len(calls) /\ pc = "failed")
    /\ pc = "failed" =>
          /\ calls # <<>>
          /\ Raised(calls[Len(calls)])
          /\ hun_blocks = <<>>
          /\ hun_sentence_idx = 0
          /\ out_file = <<>>
          /\ ~ENABLED Next

\* A run that failed after earlier calls had succeeded.
C5_Witness ==
    /\ pc = "failed"
    /\ Len(calls) >= 2
    /\ all_hun_sentences # <<>>
    /\ eng_blocks # <<>>

\* ---------------------------------------------------------------------- C6
NoMarker(text) == \A i \in 1..Len(text) : text[i] # MARKER

IsSubstring(a, b) ==
    \E k \in 1..(Len(b) - Len(a) + 1) : SubSeq(b, k, k + Len(a) - 1) = a

\* No term is a substring of another term listed later in scan order.
ScanOrdered(terms) ==
    \A i \in 1..Len(terms) : \A j \in (i + 1)..Len(terms) :
        ~IsSubstring(terms[i], terms[j])

\* C6: for a text without the marker character and a vocabulary in which no
\* term is a substring of a term listed later, unprotecting the protected text
\* gives the text back.
C6_RoundTrip ==
    (prot_pc = "restored" /\ NoMarker(prot_text) /\ ScanOrdered(vocabulary)) =>
        restored = prot_text

\* A round trip under such a vocabulary whose text had two overlapping terms
\* wrapped.
C6_Witness ==
    /\ prot_pc = "restored"
    /\ NoMarker(prot_text)
    /\ ScanOrdered(vocabulary)
    /\ Len(vocabulary) >= 2
    /\ IsSubstring(vocabulary[2], vocabulary[1])
    /\ IsSubstring(vocabulary[1], prot_text)
    /\ Len(protected) > Len(prot_text)
    /\ restored = prot_text

\* ---------------------------------------------------------------------- C7
\* C7: the lines balance_two_lines returns are no longer, at their longest,
\* than the lines it was given.
C7_MaxNotIncreased ==
    bal_pc = "returned" =>
        Max(Len(line1), Len(line2)) <= Max(Len(in_line1), Len(in_line2))

\* ---------------------------------------------------------------------- C8
\* C8 as claimed: no Translator call, forced ones included, is on sentences
\* whose summed length is over MAX_CHARS_PER_BLOCK.
C8_NoCallOverLimit ==
    \A k \in 1..Len(calls) : calls[k].chars <= MAX_CHARS_PER_BLOCK

C8_CallsInv ==
    \A k \in 1..Len(calls) :
        /\ ~calls[k].forced => calls[k].chars <= MAX_CHARS_PER_BLOCK
        /\ calls[k].forced =>
              /\ calls[k].size = 1
              /\ calls[k].chars > MAX_CHARS_PER_BLOCK
              /\ calls[k].chars = StrLen(all_eng_sentences[calls[k].start + 1])

C8_RejectStep ==
    (pc = "inner" /\ attempt_sentence_count > 0 /\ block_chars > MAX_CHARS_PER_BLOCK) =>
        /\ calls' = calls
        /\ attempt_sentence_count' = attempt_sentence_count - 1
        /\ all_hun_sentences' = all_hun_sentences
        /\ current_sentence_idx' = current_sentence_idx

\* C8, amended: a call of the attempt loop is never on sentences whose summed
\* length is over MAX_CHARS_PER_BLOCK, a candidate batch over the limit being
\* shrunk by one sentence without a call; the one call over the limit is the
\* forced call on the single sentence at the cursor, made when that sentence
\* alone is over the limit.
C8_OnlyForcedOverLimit ==
    /\ []C8_CallsInv
    /\ [][C8_RejectStep]_vars

\* A run in which a batch was shrunk to a smaller batch that was then
\* translated, and in which a sentence over the limit was translated by force.
C8_Witness ==
    /\ \E k \in 1..Len(calls) :
          calls[k].forced /\ calls[k].chars > MAX_CHARS_PER_BLOCK
    /\ \E k \in 1..Len(calls) :
          /\ ~calls[k].forced
          /\ calls[k].size > 1
          /\ calls[k].size < Min(MAX_SENTENCES_PER_BLOCK,
                                 Len(all_eng_sentences) - calls[k].start)

\* ---------------------------------------------------------------------- C9
\* A call on more than one sentence that returned another number of sentences.
BatchMismatch(call) == call.size > 1 /\ call.outcome = "differs"

C9_CallsInv ==
    /\ \A k \in 1..Len(calls) :
          BatchMismatch(calls[k]) =>
              /\ k < Len(calls) =>
                    /\ calls[k + 1].size = 1
                    /\ calls[k + 1].start = calls[k].start
                    /\ calls[k + 1].iter = calls[k].iter
              /\ k = Len(calls) =>
                    /\ CallReached
                    /\ attempt_sentence_count = 1
                    /\ current_sentence_idx = calls[k].start
    /\ \A k \in 1..Len(calls) : \A m \in (k + 1)..Len(calls) :
          calls[m].iter = calls[k].iter =>
              (m = k + 1 /\ BatchMismatch(calls[k]) /\ calls[m].size = 1)

C9_MismatchStep ==
    (Len(calls') > Len(calls) /\ BatchMismatch(calls'[Len(calls')])) =>
        /\ all_hun_sentences' = all_hun_sentences
        /\ current_sentence_idx' = current_sentence_idx
        /\ accepted' = accepted

\* C9: a call on more than one sentence whose result has another sentence
\* count appends nothing and leaves the cursor; the next call is on the one
\* sentence at the cursor, in the same outer iteration, which makes no call on
\* a size in between.
C9_StraightToOne ==
    /\ []C9_CallsInv
    /\ [][C9_MismatchStep]_vars

\* A full batch was a mismatch and the next call was on its first sentence.
C9_Witness ==
    /\ Len(calls) >= 2
    /\ \E k \in 1..(Len(calls) - 1) :
          /\ BatchMismatch(calls[k])
          /\ calls[k].size = MAX_SENTENCES_PER_BLOCK
          /\ calls[k + 1].size = 1
          /\ calls[k + 1].start = calls[k].start

\* --------------------------------------------------------------------- C10
\* c_j, the sentence count of input block j, and c_1 + .. + c_n.
SentenceCount(j) == Len(sent_tokenize(eng_blocks[j].text))
RECURSIVE CountBefore(_)
CountBefore(i) == IF i <= 1 THEN 0 ELSE CountBefore(i - 1) + SentenceCount(i - 1)

\* o_i
PoolOffset(i) == Min(Len(all_hun_sentences), CountBefore(i))

\* C10: the reassembly cursor never exceeds the pool length P; block i holds,
\* in order, the pool sentences at the positions [o_i, min(o_i + c_i, P)), so
\* c_i of them unless the pool is exhausted and then an empty text; after
\* block i the cursor is min(P, c_1 + .. + c_i), so the sentences of the pool
\* beyond c_1 + .. + c_n are in no block.
C10_PoolInOrder ==
    /\ hun_sentence_idx <= Len(all_hun_sentences)
    /\ hun_sentence_idx = PoolOffset(Len(hun_blocks) + 1)
    /\ \A i \in 1..Len(hun_blocks) :
          /\ JoinTexts(hun_blocks[i].text) =
                JoinTexts(SubSeq(all_hun_sentences, PoolOffset(i) + 1,
                                 Min(PoolOffset(i) + SentenceCount(i),
                                     Len(all_hun_sentences))))
          /\ PoolOffset(i) = Len(all_hun_sentences) => hun_blocks[i].text = <<>>

\* A finished run over several blocks whose pool ran out inside the block
\* before the last: that block got some but not all of its count, the last
\* block an empty text.
C10_Witness ==
    /\ pc = "done"
    /\ Len(hun_blocks) >= 2
    /\ Len(all_hun_sentences) < Len(all_eng_sentences)
    /\ hun_sentence_idx = Len(all_hun_sentences)
    /\ hun_blocks[Len(hun_blocks)].text = <<>>
    /\ LET i == Len(hun_blocks) - 1
           got == Len(sent_tokenize(JoinTexts(hun_blocks[i].text)))
       IN  /\ SentenceCount(i) >= 2
           /\ got >= 1
           /\ got < SentenceCount(i)

\* --------------------------------------------------------------------- C11
\* The split points between two words that keep both lines in the budget.
GoodSplits(words, max_chars_per_line) ==
    { i \in 1..(Len(words) - 1) :
        /\ StrLen(FirstLine(words, i)) <= max_chars_per_line
        /\ StrLen(SecondLine(words, i)) <= max_chars_per_line }

\* C11: for a text longer than the budget that has a split between two words
\* with both lines in the budget, format_srt_text returns two lines that are
\* both in the budget.  The code breaks it: when the only good split points
\* lie above the middle word and the text without its last word fits in one
\* line, neither loop returns and the text is cut at the middle.
C11_BothWithinBudget ==
    (/\ fmt_pc = "returned"
     /\ StrLen(fmt_text) > fmt_budget
     /\ GoodSplits(fmt_text, fmt_budget) # {})
    => /\ Len(fmt_lines) = 2
       /\ StrLen(fmt_lines[1]) <= fmt_budget
       /\ StrLen(fmt_lines[2]) <= fmt_budget

\* --------------------------------------------------------------------- C12
ProperSubstring(a, b) == a # b /\ IsSubstring(a, b)

Wrapped(term) == <<MARKER>> \o term \o <<MARKER>>

\* The terms of the vocabulary that have a shorter term of it inside them.
LongerTerms(terms) ==
    { i \in 1..Len(terms) :
        \E j \in 1..Len(terms) : ProperSubstring(terms[j], terms[i]) }

\* C12: EXCEPTIONS is scanned with the longer terms first: when the text given
\* to protect_terms contains a term that has a shorter term inside it, no such
\* shorter term is listed before it and the protected text holds the whole term
\* between one pair of markers.  The code breaks it: "React" is listed before
\* "React Native" and "Git" before "GitHub", so only the shorter term is wrapped.
C12_LongerTermsFirst ==
    (prot_pc = "protected" /\ vocabulary = EXCEPTIONS) =>
        \A i \in LongerTerms(vocabulary) :
            IsSubstring(vocabulary[i], prot_text) =>
                /\ \A j \in 1..(i - 1) :
                      ~ProperSubstring(vocabulary[j], vocabulary[i])
                /\ IsSubstring(Wrapped(vocabulary[i]), protected)

\* --------------------------------------------------------------------- C13
\* The Translator calls made in outer iteration i.
CallsIn(i) == Cardinality({ k \in 1..Len(calls) : calls[k].iter = i })

\* Outer iteration i is over: a later one has started, or the loop was left.
IterationOver(i) == i < iter \/ pc # "inner"

\* C13: every outer iteration of the batcher makes at most two Translator
\* calls, and at least one by the time it is over; two calls are a batch
\* attempt followed by a call on one sentence, and a forced single-sentence
\* call is the only call of its iteration; so a run makes at most
\* 2 * len(all_eng_sentences) calls; with no source sentence it makes no call
\* and translated sentences, output blocks and written file stay empty.
C13_RetryBound ==
    /\ \A k \in 1..Len(calls) : calls[k].iter \in 1..iter
    /\ \A i \in 1..iter :
          /\ CallsIn(i) <= 2
          /\ IterationOver(i) => CallsIn(i) >= 1
    /\ \A k \in 1..Len(calls) :
          /\ calls[k].forced => CallsIn(calls[k].iter) = 1
          /\ (k < Len(calls) /\ calls[k + 1].iter = calls[k].iter) =>
                (calls[k].size > 1 /\ calls[k + 1].size = 1)
    /\ Len(calls) <= 2 * Len(AllSentences(eng_blocks))
    /\ AllSentences(eng_blocks) = <<>> =>
          /\ iter = 0
          /\ calls = <<>>
          /\ all_hun_sentences = <<>>
          /\ hun_blocks = <<>>
          /\ out_file = <<>>

\* A finished run with an iteration of two calls, an iteration whose only call
\* was the forced one, and more calls than iterations.
C13_Witness ==
    /\ pc = "done"
    /\ \E i \in 1..iter : CallsIn(i) = 2
    /\ \E k \in 1..Len(calls) : calls[k].forced /\ CallsIn(calls[k].iter) = 1
    /\ Len(calls) > iter
    /\ Len(calls) <= 2 * Len(all_eng_sentences)

\* The run on no source sentence has finished and nothing was called or written.
C13_EmptyRun ==
    /\ pc = "done"
    /\ all_eng_sentences = <<>>
    /\ calls = <<>>
    /\ out_file = <<>>

====
